---- MODULE Spec2Model ----
(***************************************************************************)
(* A model of jelly-sync (src/src/jellysync/jellysync.py): the Path        *)
(* Builder (make_file_path, parse_filename) and the Sync Engine            *)
(* (download_series, download_season, download_items, download).           *)
(*                                                                         *)
(* Strings are sequences of one-character strings, so that joining,        *)
(* splitting, normalising and sanitising are computed character by         *)
(* character as the Python code and the libraries it calls compute them.   *)
(***************************************************************************)
EXTENDS Integers, Sequences, FiniteSets, TLC

None == "None"

(***************************************************************************)
(* Bounds of the model.                                                    *)
(***************************************************************************)
\* a series name is made of 1..MaxPieces pieces of NamePieces
MaxPieces == 3
\* sizes of the files found on disk before the first run: 0..MaxLen
MaxLen == 2
\* invocations of the tool in one behaviour
MaxRuns == 2

(***************************************************************************)
(* Strings.                                                                *)
(***************************************************************************)
Digits == <<"0", "1", "2", "3", "4", "5", "6", "7", "8", "9">>

Digit(d) == <<Digits[d + 1]>>

RECURSIVE Dec(_)
\* str(n) for a natural number n
Dec(n) == IF n < 10 THEN Digit(n) ELSE Dec(n \div 10) \o Digit(n % 10)

\* f"{n:02d}" for a natural number n: at least two digits, zero padded
Fmt02d(n) == IF n < 10 THEN <<"0">> \o Digit(n) ELSE Dec(n)

DigitValue(c) == CHOOSE d \in 0..9 : Digits[d + 1] = c

IsNumber(s) == s # <<>> /\ \A i \in 1..Len(s) : \E d \in 0..9 : Digits[d + 1] = s[i]

RECURSIVE ParseInt(_)
\* int(s) for a string of decimal digits
ParseInt(s) ==
    IF Len(s) = 1 THEN DigitValue(s[1])
    ELSE 10 * ParseInt(SubSeq(s, 1, Len(s) - 1)) + DigitValue(s[Len(s)])

RECURSIVE Str(_)
\* the string a sequence of characters spells: how a path is written in
\* the state (the disk's keys, filename)
Str(s) == IF s = <<>> THEN "" ELSE s[1] \o Str(Tail(s))

RECURSIVE Concat(_)
Concat(ss) == IF ss = <<>> THEN <<>> ELSE Head(ss) \o Concat(Tail(ss))

RECURSIVE Split(_, _)
\* s.split(sep) for a one-character sep: always at least one token
Split(s, sep) ==
    IF \A i \in 1..Len(s) : s[i] # sep
    THEN <<s>>
    ELSE LET k == CHOOSE i \in 1..Len(s) :
                      s[i] = sep /\ \A j \in 1..(i - 1) : s[j] # sep
         IN  <<SubSeq(s, 1, k - 1)>> \o Split(SubSeq(s, k + 1, Len(s)), sep)

RECURSIVE JoinWith(_, _)
\* sep.join(parts)
JoinWith(parts, sep) ==
    IF parts = <<>> THEN <<>>
    ELSE IF Len(parts) = 1 THEN parts[1]
    ELSE parts[1] \o sep \o JoinWith(Tail(parts), sep)

StartsWith(s, c) == s # <<>> /\ s[1] = c

EndsWith(s, c) == s # <<>> /\ s[Len(s)] = c

(***************************************************************************)
(* os.path (posixpath) as make_file_path and download use it.              *)
(***************************************************************************)
\* posixpath.join(a, b): an absolute b discards a
PathJoin2(a, b) ==
    IF StartsWith(b, "/") THEN b
    ELSE IF a = <<>> \/ EndsWith(a, "/") THEN a \o b
    ELSE a \o <<"/">> \o b

RECURSIVE PathJoinFrom(_, _)
PathJoinFrom(a, rest) ==
    IF rest = <<>> THEN a ELSE PathJoinFrom(PathJoin2(a, Head(rest)), Tail(rest))

\* os.path.join(parts[1], parts[2], ...)
PathJoin(parts) == PathJoinFrom(Head(parts), Tail(parts))

DotDot == <<".", ".">>

Dot == <<".">>

RECURSIVE NormComps(_, _, _)
\* the loop of posixpath.normpath over the components
NormComps(comps, new, initial) ==
    IF comps = <<>> THEN new
    ELSE LET comp == Head(comps)
             rest == Tail(comps)
         IN  IF comp = <<>> \/ comp = Dot THEN NormComps(rest, new, initial)
             ELSE IF comp # DotDot
                     \/ (initial = 0 /\ new = <<>>)
                     \/ (new # <<>> /\ new[Len(new)] = DotDot)
                  THEN NormComps(rest, Append(new, comp), initial)
             ELSE IF new # <<>>
                  THEN NormComps(rest, SubSeq(new, 1, Len(new) - 1), initial)
             ELSE NormComps(rest, new, initial)

\* posixpath.normpath(path)
NormPath(path) ==
    IF path = <<>> THEN Dot
    ELSE LET initial ==
                 IF ~StartsWith(path, "/") THEN 0
                 ELSE IF Len(path) >= 2 /\ path[2] = "/"
                         /\ ~(Len(path) >= 3 /\ path[3] = "/")
                      THEN 2
                 ELSE 1
             comps == NormComps(Split(path, "/"), <<>>, initial)
             body == JoinWith(comps, <<"/">>)
             res == (IF initial = 2 THEN <<"/", "/">>
                     ELSE IF initial = 1 THEN <<"/">> ELSE <<>>) \o body
         IN  IF res = <<>> THEN Dot ELSE res

(***************************************************************************)
(* pathvalidate.sanitize_filepath (imported at line 7, platform            *)
(* "universal", normalize=True), as the library documents and implements   *)
(* it: the path is normalised with os.path.normpath, the characters that   *)
(* are invalid in a file path are removed, and every entry is sanitised as *)
(* a file name; "." and ".." entries and a leading separator are kept.     *)
(* Reserved device names (CON, NUL, ...) and the length limit are left     *)
(* out: no input of the model reaches them.                                *)
(***************************************************************************)
InvalidPathChars == {":", "*", "?", "\"", "<", ">", "|"}

RECURSIVE LStrip(_, _)
LStrip(s, cs) == IF s # <<>> /\ s[1] \in cs THEN LStrip(Tail(s), cs) ELSE s

RECURSIVE RStrip(_, _)
RStrip(s, cs) ==
    IF s # <<>> /\ s[Len(s)] \in cs THEN RStrip(SubSeq(s, 1, Len(s) - 1), cs) ELSE s

\* the file name sanitiser on one entry of the path
SanitizeEntry(e) ==
    IF e = Dot \/ e = DotDot THEN e
    ELSE RStrip(LStrip(e, {" "}), {" ", "."})

RECURSIVE SanitizeEntries(_, _)
\* empty entries are dropped, but for a leading one (an absolute path)
SanitizeEntries(entries, acc) ==
    IF entries = <<>> THEN acc
    ELSE LET e == SanitizeEntry(Head(entries))
         IN  IF e = <<>>
             THEN SanitizeEntries(Tail(entries), IF acc = <<>> THEN <<e>> ELSE acc)
             ELSE SanitizeEntries(Tail(entries), Append(acc, e))

sanitize_filepath(file_path) ==
    IF file_path = <<>> THEN <<>>
    ELSE LET normalized == NormPath(file_path)
             stripped == SelectSeq(normalized, LAMBDA c : c \notin InvalidPathChars)
         IN  JoinWith(SanitizeEntries(Split(stripped, "/"), <<>>), <<"/">>)

(***************************************************************************)
(* The Path Builder.                                                       *)
(***************************************************************************)
Shows == <<"S", "h", "o", "w", "s">>

SeasonSp == <<"S", "e", "a", "s", "o", "n", " ">>

Dash == <<" ", "-", " ">>

\* the extension of the earlier version: the whole Container field
ExtWhole(container) == container

\* item["Container"].split(",")[0]
Ext(container) == Split(container, ",")[1]

\* f"S{item['ParentIndexNumber']:02d}E{item['IndexNumber']:02d}"
EpisodeId(item) ==
    <<"S">> \o Fmt02d(item.ParentIndexNumber) \o <<"E">> \o Fmt02d(item.IndexNumber)

\* f"{series} - {episode_id} - {title}.{ext}"
FileName(item) ==
    item.SeriesName \o Dash \o EpisodeId(item) \o Dash \o item.Name
        \o <<".">> \o Ext(item.Container)

\* JellySync.make_file_path: a path relative to the working directory
make_file_path(item) ==
    sanitize_filepath(PathJoin(<<Shows,
                                 item.SeriesName,
                                 SeasonSp \o Fmt02d(item.ParentIndexNumber),
                                 FileName(item)>>))

(***************************************************************************)
(* parse_filename: the filename parameter of the Content-Disposition       *)
(* header, read with the MIME parameter rules of email.message, then       *)
(* sanitised.  KeyError when the header carries no filename parameter.     *)
(***************************************************************************)
KeyError == <<"KeyError">>

Unquote(v) ==
    IF Len(v) >= 2 /\ v[1] = "\"" /\ v[Len(v)] = "\"" THEN SubSeq(v, 2, Len(v) - 1) ELSE v

FilenameKey == <<"f", "i", "l", "e", "n", "a", "m", "e">>

\* the header's parameters: name -> value, as a set of pairs
HeaderParams(header) ==
    LET toks == Tail(Split(header, ";"))
        kv(t) == Split(t, "=")
    IN  {<<LStrip(kv(toks[i])[1], {" "}),
           Unquote(JoinWith(Tail(kv(toks[i])), <<"=">>))>> :
            i \in {j \in 1..Len(toks) : Len(kv(toks[j])) >= 2}}

parse_filename(content_disposition) ==
    LET hits == {p \in HeaderParams(content_disposition) : p[1] = FilenameKey}
    IN  IF hits = {} THEN KeyError
        ELSE sanitize_filepath((CHOOSE p \in hits : TRUE)[2])

(***************************************************************************)
(* Where a path of the tool lands: __post_init__ changes the working       *)
(* directory to media_dir, and every file is opened by its relative path.  *)
(***************************************************************************)
\* the path the operating system opens for `path` when the working directory is cwd
Resolve(cwd, path) == PathJoin2(cwd, path)

RECURSIVE Depths(_, _)
\* the depth below the working directory after each entry of a relative path
Depths(entries, d) ==
    IF entries = <<>> THEN <<>>
    ELSE LET e == Head(entries)
             nd == IF e = DotDot THEN d - 1
                   ELSE IF e = Dot \/ e = <<>> THEN d ELSE d + 1
         IN  <<nd>> \o Depths(Tail(entries), nd)

\* the file opened for `path` lies inside the working directory
InsideCwd(path) ==
    /\ ~StartsWith(path, "/")
    /\ LET ds == Depths(Split(path, "/"), 0)
       IN  /\ \A i \in 1..Len(ds) : ds[i] >= 0
           /\ ds # <<>> /\ ds[Len(ds)] >= 1

(***************************************************************************)
(* The media server: the items it serves, and the answers it can give.     *)
(***************************************************************************)
Foo == <<"F", "o", "o">>

Mkv == <<"m", "k", "v">>

Mp4 == <<"m", "p", "4">>

Attachment == <<"a", "t", "t", "a", "c", "h", "m", "e", "n", "t">>

\* the header  attachment; filename="<name>.mkv"
Disposition(name) ==
    Attachment \o <<";", " ">> \o FilenameKey \o <<"=", "\"">> \o name
        \o <<".">> \o Mkv \o <<"\"">>

\* e1 and e3 carry the same metadata (a server whose metadata collides)
ItemIds == {"e1", "e2", "e3"}

Item ==
    [e1 |-> [Id |-> "e1", SeriesName |-> Foo, ParentIndexNumber |-> 1,
             IndexNumber |-> 1, Name |-> <<"A">>, Container |-> Mkv \o <<",">> \o Mp4],
     e2 |-> [Id |-> "e2", SeriesName |-> Foo, ParentIndexNumber |-> 1,
             IndexNumber |-> 2, Name |-> <<"B">>, Container |-> Mkv],
     e3 |-> [Id |-> "e3", SeriesName |-> Foo, ParentIndexNumber |-> 1,
             IndexNumber |-> 1, Name |-> <<"A">>, Container |-> Mkv]]

\* the size of the item's media file on the server
MediaLength == [e1 |-> 2, e2 |-> 1, e3 |-> 0]

\* the Content-Disposition header the server sends with the item's file
MediaDisposition ==
    [e1 |-> Disposition(<<"a">>), e2 |-> Disposition(<<"b">>), e3 |-> Attachment]

SeasonIds == {"s1", "s2"}

\* what the server holds: the seasons of the series in its order, and each
\* season's episodes in its order
Libraries ==
    {[seasons |-> <<"s1", "s2">>, episodes |-> [s1 |-> <<"e1", "e2">>, s2 |-> <<"e3">>]],
     [seasons |-> <<"s2", "s1">>, episodes |-> [s1 |-> <<"e2", "e1">>, s2 |-> <<>>]],
     [seasons |-> <<"s1">>, episodes |-> [s1 |-> <<"e1", "e3">>, s2 |-> <<>>]],
     [seasons |-> <<"s1", "s1">>, episodes |-> [s1 |-> <<"e2">>, s2 |-> <<>>]]}

\* the answers to GET /Shows/{id}/Seasons and /Shows/{id}/Episodes: a status
\* and a body, which is JSON or not, with an "Items" array or not
ListingResponses(items) ==
    {[status |-> 200, json |-> TRUE, hasItems |-> TRUE, Items |-> items],
     [status |-> 500, json |-> FALSE, hasItems |-> FALSE, Items |-> <<>>],
     [status |-> 404, json |-> TRUE, hasItems |-> FALSE, Items |-> <<>>],
     [status |-> 503, json |-> TRUE, hasItems |-> TRUE, Items |-> items]}

\* the answers to GET /Items/{id}/Download: the status, the Content-Length
\* and Content-Disposition headers (each present or not), and the body:
\* whose bytes, and how many iter_bytes yields (a body with a
\* Content-Encoding decodes to another length than Content-Length)
MediaResponse(id) ==
    [status |-> 200, hasLength |-> TRUE, length |-> Dec(MediaLength[id]),
     hasDisposition |-> TRUE, disposition |-> MediaDisposition[id],
     body |-> id, bodyLen |-> MediaLength[id]]

DownloadResponses(id) ==
    {MediaResponse(id),
     [MediaResponse(id) EXCEPT !.bodyLen = @ + 1],
     [MediaResponse(id) EXCEPT !.hasLength = FALSE, !.length = <<>>],
     [MediaResponse(id) EXCEPT !.length = <<"a", "b", "c">>],
     [status |-> 404, hasLength |-> TRUE, length |-> <<"1">>,
      hasDisposition |-> FALSE, disposition |-> <<>>,
      body |-> "err", bodyLen |-> 1]}

NoResponse == [status |-> 0]

Is2xx(status) == status \in 200..299

(***************************************************************************)
(* The disk below the working directory: path -> NoFile or a regular file  *)
(* holding the first `size` bytes of the body `src` ("old": a file that    *)
(* was there before the first run).                                        *)
(***************************************************************************)
MetadataPaths == {Str(make_file_path(Item[i])) : i \in ItemIds}

DispositionPaths ==
    {Str(p) : p \in {parse_filename(MediaDisposition[i]) : i \in ItemIds} \ {KeyError}}

Paths == MetadataPaths \cup DispositionPaths

NoFile == [exists |-> FALSE, size |-> 0, src |-> "none"]

OldFiles == {NoFile} \cup [exists : {TRUE}, size : 0..MaxLen, src : {"old"}]

\* os.path.isfile(filename)
isfile(d, filename) == filename \in DOMAIN d /\ d[filename].exists

\* os.stat(filename).st_size
st_size(d, filename) == d[filename].size

(***************************************************************************)
(* State.                                                                  *)
(***************************************************************************)
VARIABLES
    \* JellySync's fields (the dataclass, lines 29-35)
    dry_run, use_content_disposition,
    \* the environment: what the server holds, the files below media_dir
    library, disk,
    \* the position of the running invocation and its local variables
    pc, run, entry, seasons, si, season_id, episodes, ei,
    resp, filename, filesize, error,
    \* the streams and files the invocation holds open
    openStreams, openFiles,
    \* history: the calls of this invocation in order, the outcome of the item
    \* handled last, whether every answer so far was the unchanged server's
    \* and no error occurred, and the season a clean download_season run that
    \* ended just before this invocation synchronised (None otherwise)
    trace, outcome, clean, prev,
    \* the Path Builder on its own: an input, the path built from it
    pathIn, pathOut, ppc

vars ==
    <<dry_run, use_content_disposition, library, disk, pc, run, entry, seasons, si,
      season_id, episodes, ei, resp, filename, filesize, error, openStreams,
      openFiles, trace, outcome, clean, prev, pathIn, pathOut, ppc>>

config == <<dry_run, use_content_disposition, library>>

pathVars == <<pathIn, pathOut, ppc>>

\* the item download_items is at
cur == episodes[ei]

NoEntry == [kind |-> "none", season |-> None]

NoOutcome == [item |-> "none", kind |-> "none"]

NoInput == [kind |-> "none"]

(***************************************************************************)
(* Init: the tool constructed (JellySync(...), __post_init__ has changed   *)
(* into media_dir), nothing requested yet.                                 *)
(***************************************************************************)
Init ==
    /\ dry_run \in BOOLEAN
    /\ use_content_disposition \in BOOLEAN
    /\ library \in Libraries
    \* files at paths this configuration never opens are left out
    /\ disk \in {d \in [Paths -> OldFiles] :
                    \A p \in Paths : d[p].exists =>
                        IF use_content_disposition THEN p \in DispositionPaths
                        ELSE p \in MetadataPaths}
    /\ pc = "idle"
    /\ run = 1
    /\ entry = NoEntry
    /\ seasons = <<>>
    /\ si = 0
    /\ season_id = None
    /\ episodes = <<>>
    /\ ei = 0
    /\ resp = NoResponse
    /\ filename = ""
    /\ filesize = 0
    /\ error = "none"
    /\ openStreams = {}
    /\ openFiles = {}
    /\ trace = <<>>
    /\ outcome = NoOutcome
    /\ clean = TRUE
    /\ prev = None
    /\ pathIn = NoInput
    /\ pathOut = <<>>
    /\ ppc = "off"

(***************************************************************************)
(* Control flow of download_series / download_season / download_items.     *)
(***************************************************************************)
\* the listing walked from its end
SeasonAtReversed(listing, i) == listing[Len(listing) + 1 - i].Id

\* season["Id"] of the i-th season of the listing (line 43-44)
SeasonAt(listing, i) == listing[i].Id

\* download_season has returned: the loop of download_series goes on to the
\* next season of the listing, or the invocation ends (lines 43-44)
SeasonReturn ==
    IF entry.kind = "series" /\ si < Len(seasons)
    THEN /\ si' = si + 1
         /\ season_id' = SeasonAt(seasons, si + 1)
         /\ trace' = Append(trace, <<"season", SeasonAt(seasons, si + 1)>>)
         /\ pc' = "get_episodes"
    ELSE /\ pc' = "done"
         /\ UNCHANGED <<si, season_id, trace>>

\* download has returned: the loop of download_items goes on (lines 68-71)
ItemReturn ==
    IF ei < Len(episodes)
    THEN /\ ei' = ei + 1
         /\ trace' = Append(trace, <<"item", episodes[ei + 1].Id>>)
         /\ pc' = "request"
         /\ UNCHANGED <<si, season_id>>
    ELSE /\ ei' = ei
         /\ SeasonReturn

\* a response that is never closed
StreamLeak(streams, id) == streams

\* leaving the `with httpx.stream(...)` block closes the response (line 77)
StreamExit(streams, id) == streams \ {id}

\* leaving the `with open(...)` block closes the file (line 109)
FileExit(files, name) == files \ {name}

\* a handler around download that goes on with the next item
PropagateIsolated(kind) ==
    /\ error' = kind
    /\ outcome' = [item |-> cur.Id, kind |-> "Failed"]
    /\ clean' = FALSE
    /\ ItemReturn

\* an exception raised in download: no handler in download, download_items,
\* download_season or download_series, so the invocation ends with it
Propagate(kind) ==
    /\ pc' = "failed"
    /\ error' = kind
    /\ outcome' = [item |-> cur.Id, kind |-> "Failed"]
    /\ clean' = FALSE
    /\ UNCHANGED <<si, season_id, trace, ei>>

\* an exception raised while listing: it ends the invocation as well
ListingFail(kind) ==
    /\ pc' = "failed"
    /\ error' = kind
    /\ clean' = FALSE
    /\ UNCHANGED <<si, season_id, trace, ei, outcome, seasons, episodes>>

(***************************************************************************)
(* The operator starts the tool: one subcommand per invocation.            *)
(***************************************************************************)
\* download-series <series_id>: download_series, line 41
StartSeries ==
    /\ pc = "idle"
    /\ entry' = [kind |-> "series", season |-> None]
    /\ pc' = "get_seasons"
    /\ UNCHANGED <<config, disk, run, seasons, si, season_id, episodes, ei, resp,
                   filename, filesize, error, openStreams, openFiles, trace,
                   outcome, clean, prev, pathVars>>

\* download-season <series_id> <season_id>: download_season, line 46
StartSeason ==
    /\ pc = "idle"
    /\ \E s \in SeasonIds :
          /\ entry' = [kind |-> "season", season |-> s]
          /\ season_id' = s
          /\ trace' = Append(trace, <<"season", s>>)
    /\ pc' = "get_episodes"
    /\ UNCHANGED <<config, disk, run, seasons, si, episodes, ei, resp, filename,
                   filesize, error, openStreams, openFiles, outcome, clean, prev,
                   pathVars>>

(***************************************************************************)
(* get_seasons (lines 55-59) and get_episodes (lines 61-65): httpx.get,    *)
(* then resp.json()["Items"].  No line looks at the status.                *)
(***************************************************************************)
\* data = resp.json(); data["Items"]: the exception raised, or "none"
ListingError(r) ==
    IF ~r.json THEN "JSONDecodeError"
    ELSE IF ~r.hasItems THEN "KeyError"
    ELSE "none"

\* line 57: the request is sent and answered, or the connection fails
GetSeasonsRequest ==
    /\ pc = "get_seasons"
    /\ \/ /\ \E r \in ListingResponses([i \in 1..Len(library.seasons) |->
                                            [Id |-> library.seasons[i]]]) :
                /\ resp' = r
                /\ clean' = (clean /\ r.status = 200)
          /\ pc' = "seasons_resp"
          /\ UNCHANGED error
       \/ /\ pc' = "failed"
          /\ error' = "NetworkError"
          /\ clean' = FALSE
          /\ UNCHANGED resp
    /\ UNCHANGED <<config, disk, run, entry, seasons, si, season_id, episodes, ei,
                   filename, filesize, openStreams, openFiles, trace, outcome, prev,
                   pathVars>>

\* lines 58-59, then the loop of line 43 begins
GetSeasonsParse ==
    /\ pc = "seasons_resp"
    /\ LET items == resp.Items
       IN  IF ListingError(resp) # "none"
           THEN ListingFail(ListingError(resp))
           ELSE /\ seasons' = items
                /\ IF items = <<>>
                   THEN pc' = "done" /\ UNCHANGED <<si, season_id, trace>>
                   ELSE /\ si' = 1
                        /\ season_id' = SeasonAt(items, 1)
                        /\ trace' = Append(trace, <<"season", SeasonAt(items, 1)>>)
                        /\ pc' = "get_episodes"
                /\ UNCHANGED <<episodes, ei, error, outcome, clean>>
    /\ UNCHANGED <<config, disk, run, entry, resp, filename, filesize, openStreams,
                   openFiles, prev, pathVars>>

\* line 63
GetEpisodesRequest ==
    /\ pc = "get_episodes"
    /\ \/ /\ \E r \in ListingResponses([i \in 1..Len(library.episodes[season_id]) |->
                                            Item[library.episodes[season_id][i]]]) :
                /\ resp' = r
                /\ clean' = (clean /\ r.status = 200)
          /\ pc' = "episodes_resp"
          /\ UNCHANGED error
       \/ /\ pc' = "failed"
          /\ error' = "NetworkError"
          /\ clean' = FALSE
          /\ UNCHANGED resp
    /\ UNCHANGED <<config, disk, run, entry, seasons, si, season_id, episodes, ei,
                   filename, filesize, openStreams, openFiles, trace, outcome, prev,
                   pathVars>>

\* lines 64-65, then download_items begins (line 48, 67-68)
GetEpisodesParse ==
    /\ pc = "episodes_resp"
    /\ LET items == resp.Items
       IN  IF ListingError(resp) # "none"
           THEN ListingFail(ListingError(resp))
           ELSE /\ episodes' = items
                /\ IF items = <<>>
                   THEN ei' = 0 /\ SeasonReturn
                   ELSE /\ ei' = 1
                        /\ trace' = Append(trace, <<"item", items[1].Id>>)
                        /\ pc' = "request"
                        /\ UNCHANGED <<si, season_id>>
                /\ UNCHANGED <<seasons, error, outcome, clean>>
    /\ UNCHANGED <<config, disk, run, entry, resp, filename, filesize, openStreams,
                   openFiles, prev, pathVars>>

(***************************************************************************)
(* download (lines 76-125), one item: the request, the decision, the file. *)
(***************************************************************************)
\* lines 69-71 and 77: the url and the path are made, the streamed request
\* is sent; the response headers arrive, or the connection fails
Request ==
    /\ pc = "request"
    /\ filename' = Str(make_file_path(cur))
    /\ \/ /\ \E r \in DownloadResponses(cur.Id) :
                /\ resp' = r
                /\ clean' = (clean /\ r = MediaResponse(cur.Id))
          /\ openStreams' = openStreams \cup {cur.Id}
          /\ pc' = "decide"
          /\ UNCHANGED <<si, season_id, trace, ei, error, outcome>>
       \/ /\ Propagate("NetworkError")
          /\ UNCHANGED <<resp, openStreams>>
    /\ UNCHANGED <<config, disk, run, entry, seasons, episodes, filesize, openFiles,
                   prev, pathVars>>

\* lines 78-79: resp.headers["Content-Disposition"] or params["filename"]
\* raises KeyError
NameError ==
    /\ use_content_disposition
    /\ ~resp.hasDisposition \/ parse_filename(resp.disposition) = KeyError

\* lines 78-79: the name the file is saved under
TargetName ==
    IF use_content_disposition THEN Str(parse_filename(resp.disposition))
    ELSE filename

\* line 80: int(resp.headers["Content-Length"]): the exception, or "none"
LengthError ==
    IF ~resp.hasLength THEN "KeyError"
    ELSE IF ~IsNumber(resp.length) THEN "ValueError"
    ELSE "none"

DeclaredSize == ParseInt(resp.length)

\* the dry-run test made before the existence test
BranchDryFirst(d, name, size, dry) ==
    IF dry THEN "SkippedDryRun"
    ELSE IF isfile(d, name) /\ size = st_size(d, name) THEN "SkippedExists"
    ELSE "Download"

\* the dry-run test left out
BranchNoDryRun(d, name, size, dry) ==
    IF isfile(d, name) /\ size = st_size(d, name) THEN "SkippedExists"
    ELSE "Download"

\* the size comparison left out: any existing file counts as complete
BranchExistsOnly(d, name, size, dry) ==
    IF isfile(d, name) THEN "SkippedExists"
    ELSE IF dry THEN "SkippedDryRun"
    ELSE "Download"

\* the existence test left out: every item is downloaded again
BranchNeverSkips(d, name, size, dry) ==
    IF dry THEN "SkippedDryRun" ELSE "Download"

\* lines 82-98: skip a complete file, then skip under dry-run, else download
Branch(d, name, size, dry) ==
    IF isfile(d, name) /\ size = st_size(d, name) THEN "SkippedExists"
    ELSE IF dry THEN "SkippedDryRun"
    ELSE "Download"

Decide ==
    /\ pc = "decide"
    /\ IF NameError
       THEN /\ Propagate("KeyError")
            /\ openStreams' = StreamExit(openStreams, cur.Id)
            /\ UNCHANGED <<filename, filesize>>
       ELSE IF LengthError # "none"
       THEN /\ Propagate(LengthError)
            /\ openStreams' = StreamExit(openStreams, cur.Id)
            /\ filename' = TargetName
            /\ UNCHANGED filesize
       ELSE /\ filename' = TargetName
            /\ filesize' = DeclaredSize
            /\ LET b == Branch(disk, TargetName, DeclaredSize, dry_run)
               IN  IF b = "Download"
                   THEN /\ pc' = "open"
                        /\ UNCHANGED <<si, season_id, trace, ei, outcome, openStreams>>
                   ELSE /\ outcome' = [item |-> cur.Id, kind |-> b]
                        /\ openStreams' = StreamExit(openStreams, cur.Id)
                        /\ ItemReturn
            /\ UNCHANGED <<error, clean>>
    /\ UNCHANGED <<config, disk, run, entry, seasons, episodes, resp, openFiles, prev,
                   pathVars>>

\* lines 105-109: the folders are made and the file is opened with "wb",
\* which creates it or truncates it; or either call raises
OpenFile ==
    /\ pc = "open"
    /\ \/ /\ disk' = [disk EXCEPT ![filename] =
                              [exists |-> TRUE, size |-> 0, src |-> resp.body]]
          /\ openFiles' = openFiles \cup {filename}
          /\ pc' = "write"
          /\ UNCHANGED <<si, season_id, trace, ei, error, outcome, clean, openStreams>>
       \/ /\ Propagate("IOError")
          /\ openStreams' = StreamExit(openStreams, cur.Id)
          /\ UNCHANGED <<disk, openFiles>>
    /\ UNCHANGED <<config, run, entry, seasons, episodes, resp, filename, filesize,
                   prev, pathVars>>

\* lines 123-125: the next chunk of the body is written; or the stream or
\* the write raises, and both `with` blocks are left
WriteChunk ==
    /\ pc = "write"
    /\ disk[filename].size < resp.bodyLen
    /\ \/ /\ disk' = [disk EXCEPT ![filename].size = @ + 1]
          /\ UNCHANGED <<pc, si, season_id, trace, ei, error, outcome, clean,
                         openStreams, openFiles>>
       \/ /\ \E kind \in {"NetworkError", "IOError"} : Propagate(kind)
          /\ openFiles' = FileExit(openFiles, filename)
          /\ openStreams' = StreamExit(openStreams, cur.Id)
          /\ UNCHANGED disk
    /\ UNCHANGED <<config, run, entry, seasons, episodes, resp, filename, filesize,
                   prev, pathVars>>

\* the body is exhausted: the blocks are left and download returns
Finish ==
    /\ pc = "write"
    /\ disk[filename].size = resp.bodyLen
    /\ openFiles' = FileExit(openFiles, filename)
    /\ openStreams' = StreamExit(openStreams, cur.Id)
    /\ outcome' = [item |-> cur.Id, kind |-> "Downloaded"]
    /\ ItemReturn
    /\ UNCHANGED <<config, disk, run, entry, seasons, episodes, resp, filename,
                   filesize, error, clean, prev, pathVars>>

(***************************************************************************)
(* The operator runs the tool again, with the same arguments or others:    *)
(* a new process, a new JellySync, the same disk.                          *)
(***************************************************************************)
\* the path the unchanged server's answer makes the item's file land at
TargetOf(item) ==
    IF use_content_disposition THEN Str(parse_filename(MediaDisposition[item.Id]))
    ELSE Str(make_file_path(item))

DistinctTargets(items) ==
    \A i, j \in 1..Len(items) : i # j => TargetOf(items[i]) # TargetOf(items[j])

Restart ==
    /\ pc \in {"done", "failed"}
    /\ run < MaxRuns
    /\ run' = run + 1
    /\ prev' = IF /\ pc = "done" /\ clean /\ ~dry_run
                  /\ entry.kind = "season"
                  /\ DistinctTargets(episodes)
               THEN entry.season ELSE None
    /\ pc' = "idle"
    /\ entry' = NoEntry
    /\ seasons' = <<>>
    /\ si' = 0
    /\ season_id' = None
    /\ episodes' = <<>>
    /\ ei' = 0
    /\ resp' = NoResponse
    /\ filename' = ""
    /\ filesize' = 0
    /\ error' = "none"
    /\ trace' = <<>>
    /\ outcome' = NoOutcome
    /\ clean' = TRUE
    /\ UNCHANGED <<config, disk, openStreams, openFiles, pathVars>>

Next ==
    \/ StartSeries
    \/ StartSeason
    \/ GetSeasonsRequest
    \/ GetSeasonsParse
    \/ GetEpisodesRequest
    \/ GetEpisodesParse
    \/ Request
    \/ Decide
    \/ OpenFile
    \/ WriteChunk
    \/ Finish
    \/ Restart

Spec == Init /\ [][Next]_vars

(***************************************************************************)
(* The Path Builder on its own: make_file_path and parse_filename applied  *)
(* to metadata and headers a server can send.                              *)
(***************************************************************************)
Pilot == <<"P", "i", "l", "o", "t">>

MntMedia == <<"/", "m", "n", "t", "/", "m", "e", "d", "i", "a">>

\* the directory the tool is started in
LaunchDir == <<"/", "h", "o", "m", "e">>

NamePieces == {Foo, DotDot, <<"/">>, <<":">>}

RECURSIVE NamesOf(_)
\* the strings made of exactly n pieces
NamesOf(n) ==
    IF n = 0 THEN {<<>>}
    ELSE {a \o b : a \in NamesOf(n - 1), b \in NamePieces}

Names == UNION {NamesOf(n) : n \in 1..MaxPieces}

Titles == {Pilot, DotDot, <<"/">>, <<":">>}

Containers == {Mkv, Mkv \o <<",">> \o Mp4, Mp4}

PathItems ==
    [SeriesName : Names, ParentIndexNumber : {1, 12}, IndexNumber : {3, 10},
     Name : Titles, Container : Containers]

PathInputs ==
    [kind : {"item"}, item : PathItems, media_dir : {MntMedia, <<>>}]
        \cup [kind : {"header"},
              header : {Attachment} \cup {Disposition(n) : n \in Names}]

\* __post_init__ (lines 37-39): os.chdir(media_dir) when media_dir is set
WorkingDir(media_dir) == IF media_dir # <<>> THEN media_dir ELSE LaunchDir

InitPath ==
    /\ pathIn \in PathInputs
    /\ pathOut = <<>>
    /\ ppc = "input"
    /\ dry_run = FALSE
    /\ use_content_disposition = FALSE
    /\ library = [seasons |-> <<>>, episodes |-> [s1 |-> <<>>, s2 |-> <<>>]]
    /\ disk = [p \in Paths |-> NoFile]
    /\ pc = "off"
    /\ run = 1
    /\ entry = NoEntry
    /\ seasons = <<>>
    /\ si = 0
    /\ season_id = None
    /\ episodes = <<>>
    /\ ei = 0
    /\ resp = NoResponse
    /\ filename = ""
    /\ filesize = 0
    /\ error = "none"
    /\ openStreams = {}
    /\ openFiles = {}
    /\ trace = <<>>
    /\ outcome = NoOutcome
    /\ clean = TRUE
    /\ prev = None

engineVars ==
    <<dry_run, use_content_disposition, library, disk, pc, run, entry, seasons, si,
      season_id, episodes, ei, resp, filename, filesize, error, openStreams,
      openFiles, trace, outcome, clean, prev>>

\* output_path = self.make_file_path(item) (line 70)
MakeFilePath ==
    /\ ppc = "input"
    /\ pathIn.kind = "item"
    /\ pathOut' = make_file_path(pathIn.item)
    /\ ppc' = "built"
    /\ UNCHANGED <<pathIn, engineVars>>

\* filename = parse_filename(resp.headers["Content-Disposition"]) (line 79)
ParseFilename ==
    /\ ppc = "input"
    /\ pathIn.kind = "header"
    /\ pathOut' = parse_filename(pathIn.header)
    /\ ppc' = "built"
    /\ UNCHANGED <<pathIn, engineVars>>

NextPath == MakeFilePath \/ ParseFilename

SpecPath == InitPath /\ [][NextPath]_vars

(***************************************************************************)
(* Properties of the Sync Engine, checked under Spec.                      *)
(***************************************************************************)
\* the headers of the response at hand name a file and a length
HeadersOk == ~NameError /\ LengthError = "none"

\* C1 (idempotence): when a regular file exists at the resolved target path
\* and its size equals the declared Content-Length, the item ends in
\* Skipped-Exists and handling it (the request and the decision) creates,
\* truncates and writes no file and opens none, with dry-run on or off.
C1_SkipComplete ==
    [][/\ pc = "request" => disk' = disk /\ openFiles' = openFiles
       /\ (/\ pc = "decide"
           /\ HeadersOk
           /\ isfile(disk, TargetName)
           /\ st_size(disk, TargetName) = DeclaredSize)
          => /\ outcome' = [item |-> cur.Id, kind |-> "SkippedExists"]
             /\ disk' = disk
             /\ openFiles' = {}
             /\ pc' \in {"request", "get_episodes", "done"}]_vars

C1_Witness ==
    /\ dry_run
    /\ outcome.kind = "SkippedExists"
    /\ disk[filename] = [exists |-> TRUE, size |-> filesize, src |-> "old"]

\* C2 (dry-run purity): with dry_run set no step of any invocation changes
\* the disk: no file appears, disappears or changes size or content.
C2_DryRunPurity == [][dry_run => disk' = disk]_vars

C2_Witness ==
    /\ dry_run
    /\ run = MaxRuns
    /\ outcome.kind = "SkippedDryRun"
    /\ isfile(disk, filename)
    /\ st_size(disk, filename) # filesize

\* C3 (size mismatch): with dry-run off, an existing target whose size
\* differs from the declared Content-Length is not treated as complete: the
\* item takes the download branch, opening the file truncates it, the item
\* ends Downloaded holding exactly the streamed bytes or Failed, never
\* Skipped-Exists.
C3_MismatchDownloads ==
    [][/\ (/\ pc = "decide"
           /\ HeadersOk
           /\ ~dry_run
           /\ isfile(disk, TargetName)
           /\ st_size(disk, TargetName) # DeclaredSize)
          => pc' = "open" /\ outcome' = outcome /\ filename' = TargetName
       /\ (pc = "open" /\ pc' = "write")
          => disk'[filename] = [exists |-> TRUE, size |-> 0, src |-> resp.body]
       /\ (pc \in {"open", "write"} /\ pc' \notin {"open", "write"})
          => /\ outcome'.item = cur.Id
             /\ outcome'.kind \in {"Downloaded", "Failed"}
             /\ outcome'.kind = "Downloaded" =>
                   disk'[filename] =
                       [exists |-> TRUE, size |-> resp.bodyLen, src |-> resp.body]]_vars

C3_Witness ==
    /\ ~dry_run
    /\ outcome = [item |-> "e3", kind |-> "Downloaded"]
    /\ \E i \in 1..Len(trace) : trace[i] = <<"item", "e1">>
    /\ disk[filename] = [exists |-> TRUE, size |-> 0, src |-> "e3"]

IsPrefix(a, b) == Len(a) <= Len(b) /\ a = SubSeq(b, 1, Len(a))

RECURSIVE ExpectedTrace(_)
\* the calls a fan-out over the seasons `ss` makes when nothing fails: each
\* season once, in order, followed by its episodes in the server's order
ExpectedTrace(ss) ==
    IF ss = <<>> THEN <<>>
    ELSE <<<<"season", Head(ss)>>>>
            \o [i \in 1..Len(library.episodes[Head(ss)]) |->
                    <<"item", library.episodes[Head(ss)][i]>>]
            \o ExpectedTrace(Tail(ss))

\* C4 (series fan-out): the calls of an invocation are, in order, a prefix
\* of: for each season of the server's listing, in the server's order, one
\* download_season followed by that season's episodes in the server's
\* order; an invocation that ends without error has made all of them.
C4_FanOut ==
    pc \notin {"off", "idle"} =>
        LET want == IF entry.kind = "series" THEN ExpectedTrace(library.seasons)
                    ELSE ExpectedTrace(<<entry.season>>)
        IN  /\ IsPrefix(trace, want)
            /\ pc = "done" => trace = want

C4_Witness ==
    /\ entry.kind = "series"
    /\ pc = "done"
    /\ library.seasons = <<"s1", "s2">>
    /\ trace = <<<<"season", "s1">>, <<"item", "e1">>, <<"item", "e2">>,
                 <<"season", "s2">>, <<"item", "e3">>>>

\* C7 (non-2xx responses are errors): once a response with a non-2xx status
\* has been handled, the invocation has failed; its body is not used as a
\* listing and not written to a file.
C7_NonOkFails ==
    /\ (resp.status # 0 /\ ~Is2xx(resp.status))
          => pc \in {"seasons_resp", "episodes_resp", "decide", "failed"}
    /\ \A p \in Paths : disk[p].src # "err"

\* C8 (failure aborts the batch): from the step that raises on, the
\* invocation is over: it ends with the error, nothing more is requested
\* (the calls made stay as they are) and no file changes; and while an item
\* is handled only that item's file changes, so the files of the earlier
\* items keep their size and content.
C8_FailureAborts ==
    [][/\ error' # "none"
          => /\ pc' = "failed"
             /\ disk' = disk
             /\ trace' = trace
             /\ openStreams' = {} /\ openFiles' = {}
       /\ \A p \in Paths : disk'[p] # disk[p] => pc \in {"open", "write"} /\ p = filename]_vars

C8_Witness ==
    /\ pc = "failed"
    /\ error = "NetworkError"
    /\ entry.kind = "series"
    /\ si < Len(seasons)
    /\ ei = 2 /\ ei = Len(episodes)
    /\ outcome = [item |-> "e2", kind |-> "Failed"]
    /\ disk[filename] = [exists |-> TRUE, size |-> 0, src |-> "e2"]
    /\ disk[Str(make_file_path(Item["e1"]))] = [exists |-> TRUE, size |-> 2, src |-> "e1"]

\* C9 (stream scoping): at most one stream and one destination file are
\* open at any time; the stream is the current item's and is open only
\* between its request and its outcome; the file only while it is written.
C9_StreamScoping ==
    /\ Cardinality(openStreams) <= 1
    /\ Cardinality(openFiles) <= 1
    /\ pc \in {"decide", "open", "write"} => openStreams = {cur.Id}
    /\ pc \notin {"decide", "open", "write"} => openStreams = {}
    /\ pc = "write" => openFiles = {filename}
    /\ pc # "write" => openFiles = {}

C9_Witness ==
    /\ pc = "decide"
    /\ ei = 2
    /\ outcome = [item |-> episodes[1].Id, kind |-> "Downloaded"]
    /\ openStreams = {episodes[2].Id}

\* this invocation repeats the download_season that a clean run (no error,
\* dry-run off, every stream exactly as long as declared, distinct paths)
\* has just completed
Rerun == prev # None /\ entry = [kind |-> "season", season |-> prev]

\* C10 (re-run convergence): while the server's answers are unchanged, the
\* repeated run changes no file and ends every item in Skipped-Exists; and
\* a file holding less than the declared length of the item's own body (a
\* download that was interrupted) is not taken for complete on a later run.
C10_RerunConverges ==
    [][/\ (Rerun /\ clean /\ clean' /\ run' = run)
          => /\ disk' = disk
             /\ pc' \notin {"open", "write", "failed"}
             /\ outcome' # outcome => outcome'.kind = "SkippedExists"
       /\ (/\ run > 1
           /\ pc = "decide"
           /\ resp = MediaResponse(cur.Id)
           /\ HeadersOk
           /\ isfile(disk, TargetName)
           /\ disk[TargetName].src = cur.Id
           /\ st_size(disk, TargetName) < DeclaredSize)
          => /\ outcome' # [item |-> cur.Id, kind |-> "SkippedExists"]
             /\ ~dry_run => pc' = "open"]_vars

C10_Witness ==
    /\ Rerun
    /\ clean
    /\ pc = "done"
    /\ Len(episodes) = 2
    /\ outcome.kind = "SkippedExists"
    /\ \A i \in 1..2 : disk[TargetOf(episodes[i])].src = episodes[i].Id

(***************************************************************************)
(* Properties of the Path Builder, checked under SpecPath.                 *)
(***************************************************************************)
\* C5 (path containment): every path the Path Builder returns, from item
\* metadata or from a Content-Disposition header, names a file inside the
\* working directory (media_dir).
C5_PathContainment ==
    (ppc = "built" /\ pathOut # KeyError) => InsideCwd(pathOut)

\* the path the operating system opens for the path built
Resolved == Resolve(WorkingDir(pathIn.media_dir), pathOut)

\* a number below 100 as two digits
TwoDigits(n) == <<Digits[(n \div 10) + 1], Digits[(n % 10) + 1]>>

\* the first of the comma-separated candidates of a Container field
FirstCandidate(c) ==
    LET commas == {i \in 1..Len(c) : c[i] = ","}
    IN  IF commas = {} THEN c
        ELSE SubSeq(c, 1, (CHOOSE i \in commas : \A j \in commas : i <= j) - 1)

\* base / "Shows" / series / "Season NN" / "series - SNNENN - title.ext"
FormatPath(base, item) ==
    Concat(<<base, <<"/">>, Shows, <<"/">>, item.SeriesName, <<"/">>,
             SeasonSp, TwoDigits(item.ParentIndexNumber), <<"/">>,
             item.SeriesName, Dash, <<"S">>, TwoDigits(item.ParentIndexNumber),
             <<"E">>, TwoDigits(item.IndexNumber), Dash, item.Name, <<".">>,
             FirstCandidate(item.Container)>>)

\* a name with no separator and no dot: no path segment comes from it
NoSegments(n) == \A i \in 1..Len(n) : n[i] \notin {"/", "\\", "."}

PlainSeries(n) ==
    /\ n # <<>>
    /\ \A i \in 1..Len(n) : n[i] \notin InvalidPathChars \cup {"/", "\\"}
    /\ n \notin {Dot, DotDot}
    /\ n[1] # " "
    /\ n[Len(n)] \notin {" ", "."}

\* a title the sanitiser leaves alone inside the file name
PlainTitle(t) == \A i \in 1..Len(t) : t[i] \notin InvalidPathChars \cup {"/", "\\"}

TheExample ==
    [kind |-> "item",
     item |-> [SeriesName |-> Foo, ParentIndexNumber |-> 1, IndexNumber |-> 3,
               Name |-> Pilot, Container |-> Mkv],
     media_dir |-> MntMedia]

\* /mnt/media/Shows/Foo/Season 01/Foo - S01E03 - Pilot.mkv
TheExamplePath ==
    <<"/", "m", "n", "t", "/", "m", "e", "d", "i", "a", "/",
      "S", "h", "o", "w", "s", "/", "F", "o", "o", "/",
      "S", "e", "a", "s", "o", "n", " ", "0", "1", "/",
      "F", "o", "o", " ", "-", " ", "S", "0", "1", "E", "0", "3", " ", "-", " ",
      "P", "i", "l", "o", "t", ".", "m", "k", "v">>

====
